---- MODULE Spec2Model ----
(***************************************************************************)
(* dnora: grid filters (grd/mod.py), meshers (dnora/grd/mesh.py), the      *)
(* Forcing container (dnora/wnd/wnd_mod.py) and the forcing writers        *)
(* (dnora/wnd/write.py), as state machines.                                *)
(*                                                                         *)
(* A numpy array is a record [shape, flat]: its shape tuple and its        *)
(* elements in row-major order.  A float is a record [nan, x]: NaN, or the *)
(* number x.  An array object lives in a heap under a reference, so that   *)
(* "a copy" and "the same array" are different things.                     *)
(***************************************************************************)
EXTENDS Integers, Sequences, FiniteSets, TLC

VARIABLES
    heap,       \* grid filters: reference -> array object
    filt,       \* grid filters: the filter object (kind, min_depth, to_land)
    heap0,      \* grid filters: the heap as the caller held it before the call
    fret,       \* grid filters: [pc, ref, info]: position, returned reference, reported count
    mesher,     \* meshers: the mesher object (kind, val, method)
    marg,       \* meshers: the call's arguments data, lon, lat, lonQ, latQ (data is mutable)
    marg0,      \* meshers: the arguments as the caller held them before the call
    mret,       \* meshers: [pc, out, exc]: position, returned array, exception
    forcing,    \* the Forcing object: grid, _name and, once imported, start_time, end_time, data
    fs,         \* the folders that exist in the file system
    call,       \* the last call of a Forcing method: [op, status, exc, value, args, pre];
                \* pre is the Forcing the method read, and empty for import_forcing
    file,       \* SWAN writer: the lines written to the output file
    swan        \* SWAN writer: [pc, days, d, times, n]: position in the loops of __call__

filterVars == <<heap, filt, heap0, fret>>
meshVars == <<mesher, marg, marg0, mret>>
forcingVars == <<forcing, fs, call>>
swanVars == <<file, swan>>
vars == <<heap, filt, heap0, fret, mesher, marg, marg0, mret, forcing, fs, call,
          file, swan>>

(***************************************************************************)
(* Bounds of the model.                                                    *)
(***************************************************************************)
MaxNy == 2          \* latitude rows of a grid
MaxNx == 2          \* longitude columns of a grid
MaxSamples == 3     \* scattered bathymetry samples handed to a mesher
MaxCoord == 1       \* sample coordinates are drawn from 0..MaxCoord
MaxDays == 2        \* days a forcing can span

(***************************************************************************)
(* Floats and arrays.                                                      *)
(***************************************************************************)
NaN == [nan |-> TRUE, x |-> 0]
Num(n) == [nan |-> FALSE, x |-> n]

\* a > b on floats: False whenever a is NaN
Gt(a, b) == (~a.nan) /\ (~b.nan) /\ a.x > b.x

NoArray == [shape |-> <<>>, flat |-> <<>>]

Size(shape) == IF Len(shape) = 0 THEN 0
               ELSE IF Len(shape) = 1 THEN shape[1] ELSE shape[1] * shape[2]

\* np.full(shape, val)
full(shape, val) == [shape |-> shape, flat |-> [k \in 1..Size(shape) |-> val]]

\* row i (1-based) of a 2-D array
Row(arr, i) == SubSeq(arr.flat, (i - 1) * arr.shape[2] + 1, i * arr.shape[2])

(***************************************************************************)
(* Grid filters: src/grd/mod.py                                            *)
(***************************************************************************)
\* copy(data) done wrong: hands back the caller's own array
copy_alias(h, ref) == [ref |-> ref, heap |-> h]

\* copy(data): a new array object with the elements of the old one
copy(h, ref) == [ref |-> "new_data", heap |-> [h EXCEPT !["new_data"] = h[ref]]]

\* shallow_points = data > self.min_depth
shallow_points(data, min_depth) ==
    [shape |-> data.shape,
     flat |-> [k \in 1..Len(data.flat) |-> Gt(data.flat[k], Num(min_depth))]]

\* np.logical_and that forgets the second operand
logical_and_left(a, b) == a

\* np.logical_and(a, b)
logical_and(a, b) ==
    [shape |-> a.shape, flat |-> [k \in 1..Len(a.flat) |-> a.flat[k] /\ b.flat[k]]]

RECURSIVE CountTrue(_)
CountTrue(s) == IF s = <<>> THEN 0
                ELSE (IF Head(s) THEN 1 ELSE 0) + CountTrue(Tail(s))

\* np.count_nonzero(mask)
count_nonzero(mask) == CountTrue(mask.flat)

\* arr[mask] = val
setitem(arr, mask, val) ==
    [shape |-> arr.shape,
     flat |-> [k \in 1..Len(arr.flat) |-> IF mask.flat[k] THEN val ELSE arr.flat[k]]]

\* the written value with the branches confused: always the threshold
fill_value_min(f) == f.min_depth

\* the value the branch of SetMinDepth.__call__ writes
fill_value(f) == IF f.to_land >= 0 THEN f.to_land ELSE f.min_depth

DepthVals == <<NaN, Num(0), Num(2), Num(5), Num(9)>>
Thresholds == {2, 5}
ToLands == {-1, 0, 7}

Shapes == {<<ny, nx>> : ny \in 1..MaxNy, nx \in 1..MaxNx}

\* the depth arrays of the model: cell (i, j) holds DepthVals[(a*i + b*j) % 5 + 1]
DepthArray(shape, a, b) ==
    [shape |-> shape,
     flat |-> [k \in 1..Size(shape) |->
        LET i == (k - 1) \div shape[2] + 1
            j == ((k - 1) % shape[2]) + 1
        IN DepthVals[((a * i + b * j) % Len(DepthVals)) + 1]]]

\* the boolean masks of the model: cell (i, j) is True iff c*i + d*j + e is odd
MaskArray(shape, c, d, e) ==
    [shape |-> shape,
     flat |-> [k \in 1..Size(shape) |->
        LET i == (k - 1) \div shape[2] + 1
            j == ((k - 1) % shape[2]) + 1
        IN ((c * i + d * j + e) % 2) = 1]]

Filters ==
    {[kind |-> "TrivialFilter", min_depth |-> 0, to_land |-> -1]}
    \cup {[kind |-> "SetMinDepth", min_depth |-> t, to_land |-> l] :
             t \in Thresholds, l \in ToLands}

NoCall == [op |-> "none", status |-> "none", exc |-> "none", value |-> <<>>,
           args |-> <<>>, pre |-> <<>>]

ForcingIdle ==
    /\ forcing = [grid |-> "none", name |-> "none", imported |-> FALSE]
    /\ fs = {}
    /\ call = NoCall

SwanIdle ==
    /\ file = <<>>
    /\ swan = [pc |-> "idle", days |-> <<>>, d |-> 0, times |-> <<>>, n |-> 0]

FilterIdle ==
    /\ heap = <<>> /\ heap0 = <<>>
    /\ filt = [kind |-> "none", min_depth |-> 0, to_land |-> -1]
    /\ fret = [pc |-> "idle", ref |-> "none", info |-> 0]

MeshIdle ==
    /\ mesher = [kind |-> "none"]
    /\ marg = <<>> /\ marg0 = <<>>
    /\ mret = [pc |-> "idle", out |-> NoArray, exc |-> "none"]

FilterInit ==
    /\ \E shape \in Shapes, a \in 0..4, b \in 0..4, c \in 0..1, d \in 0..1,
          e \in 0..1, bm \in BOOLEAN :
          heap = [data |-> DepthArray(shape, a, b),
                  land_sea_mask |-> MaskArray(shape, c, d, e),
                  boundary_mask |-> full(shape, bm),
                  new_data |-> NoArray]
    /\ heap0 = heap
    /\ filt \in Filters
    /\ fret = [pc |-> "ready", ref |-> "none", info |-> 0]
    /\ MeshIdle /\ ForcingIdle /\ SwanIdle

\* TrivialFilter.__call__: return copy(data)
TrivialFilter_call ==
    /\ fret.pc = "ready" /\ filt.kind = "TrivialFilter"
    /\ LET c == copy(heap, "data")
       IN /\ heap' = c.heap
          /\ fret' = [pc |-> "returned", ref |-> c.ref, info |-> 0]
    /\ UNCHANGED <<filt, heap0, meshVars, forcingVars, swanVars>>

\* SetMinDepth.__call__
SetMinDepth_call ==
    /\ fret.pc = "ready" /\ filt.kind = "SetMinDepth"
    /\ LET shallow == shallow_points(heap["data"], filt.min_depth)
           c == copy(heap, "data")
           sel == logical_and(shallow, heap["land_sea_mask"])
       IN /\ heap' = [c.heap EXCEPT ![c.ref] =
                         setitem(c.heap[c.ref], sel, Num(fill_value(filt)))]
          /\ fret' = [pc |-> "returned", ref |-> c.ref, info |-> count_nonzero(sel)]
    /\ UNCHANGED <<filt, heap0, meshVars, forcingVars, swanVars>>

FilterNext == TrivialFilter_call \/ SetMinDepth_call

SpecFilter == FilterInit /\ [][FilterNext]_vars

(***************************************************************************)
(* Claims about the grid filters (checked under SpecFilter).               *)
(***************************************************************************)
Deep(D, k, T) == (~D.flat[k].nan) /\ D.flat[k].x > T

logical_not(mask) ==
    [shape |-> mask.shape, flat |-> [k \in 1..Len(mask.flat) |-> ~mask.flat[k]]]

\* data > c, elementwise
greater(data, c) ==
    [shape |-> data.shape, flat |-> [k \in 1..Len(data.flat) |-> Gt(data.flat[k], Num(c))]]

\* data < 0 in place of not (data > 0): NaN is not selected
land_points_negative(data) ==
    [shape |-> data.shape,
     flat |-> [k \in 1..Len(data.flat) |-> (~data.flat[k].nan) /\ data.flat[k].x < 0]]

\* np.logical_not(data>0): the samples Interpolate sets to 0
land_points(data) == logical_not(greater(data, 0))

SqDist(px, py, qx, qy) == (px - qx) * (px - qx) + (py - qy) * (py - qy)

\* scipy's griddata(points, values, xi, 'nearest') at one query point: the value
\* of a sample at the least distance; among equally near samples the library
\* fixes no choice, tie says which one this build returns
Nearest(values, lon, lat, qx, qy, tie) ==
    LET n == Len(values.flat)
        d(s) == SqDist(lon.flat[s], lat.flat[s], qx, qy)
        near == {s \in 1..n : \A r \in 1..n : d(s) <= d(r)}
        pick == IF tie = "first" THEN CHOOSE s \in near : \A r \in near : s <= r
                ELSE CHOOSE s \in near : \A r \in near : s >= r
    IN values.flat[pick]

\* the samples do not span a triangle: Delaunay triangulation (linear, cubic) fails
Degenerate(lon, lat) ==
    LET n == Len(lon.flat)
    IN \/ n < 3
       \/ \A s \in 1..n, r \in 1..n :
             (lon.flat[s] - lon.flat[1]) * (lat.flat[r] - lat.flat[1])
               = (lon.flat[r] - lon.flat[1]) * (lat.flat[s] - lat.flat[1])

\* griddata(..., method) on the query grid (lonQ, latQ): an array of the shape of
\* the query grid.  For 'linear' and 'cubic' the value at a query point that is
\* a sample point is that sample's value; elsewhere it is left open (w).
griddata(values, lon, lat, lonQ, latQ, method, tie, w) ==
    [shape |-> lonQ.shape,
     flat |-> [k \in 1..Len(lonQ.flat) |->
        IF method = "nearest"
        THEN Nearest(values, lon, lat, lonQ.flat[k], latQ.flat[k], tie)
        ELSE IF \E s \in 1..Len(values.flat) :
                    lon.flat[s] = lonQ.flat[k] /\ lat.flat[s] = latQ.flat[k]
             THEN values.flat[CHOOSE s \in 1..Len(values.flat) :
                                 lon.flat[s] = lonQ.flat[k] /\ lat.flat[s] = latQ.flat[k]]
             ELSE w]]

SampleVals == <<NaN, Num(-3), Num(0), Num(4)>>
ConstantVals == {1, 7}
Methods == {"nearest", "linear", "cubic"}

Lattice == {<<x, y>> : x \in 0..MaxCoord, y \in 0..MaxCoord}

PtKey(p) == p[1] * (MaxCoord + 1) + p[2]

RECURSIVE PtSeq(_)
PtSeq(S) == IF S = {} THEN <<>>
            ELSE LET p == CHOOSE q \in S : \A r \in S : PtKey(q) <= PtKey(r)
                 IN <<p>> \o PtSeq(S \ {p})

\* the sample sets of the model: pairwise distinct locations on the lattice
SampleSets == {S \in SUBSET Lattice : Cardinality(S) \in 1..MaxSamples}

\* the arguments of a mesher call: samples at the points of S, sample k holding
\* SampleVals[(a*k + b) % 4 + 1], and the query grid np.meshgrid(0..n-1, 0..m-1)
MeshArgs(S, a, b, m, n) ==
    LET pts == PtSeq(S)
        ns == Len(pts)
    IN [data |-> [shape |-> <<ns>>,
                  flat |-> [k \in 1..ns |-> SampleVals[((a * k + b) % Len(SampleVals)) + 1]]],
        lon |-> [shape |-> <<ns>>, flat |-> [k \in 1..ns |-> pts[k][1]]],
        lat |-> [shape |-> <<ns>>, flat |-> [k \in 1..ns |-> pts[k][2]]],
        lonQ |-> [shape |-> <<m, n>>, flat |-> [k \in 1..(m * n) |-> (k - 1) % n]],
        latQ |-> [shape |-> <<m, n>>, flat |-> [k \in 1..(m * n) |-> (k - 1) \div n]]]

Meshers ==
    {[kind |-> "Constant", val |-> v, method |-> "none"] : v \in ConstantVals}
    \cup {[kind |-> "Interpolate", val |-> 0, method |-> me] : me \in Methods}

MeshInit ==
    /\ \E S \in SampleSets, a \in 0..3, b \in 0..3, m \in 1..MaxNy, n \in 1..MaxNx :
          marg = MeshArgs(S, a, b, m, n)
    /\ marg0 = marg
    /\ mesher \in Meshers
    /\ mret = [pc |-> "ready", out |-> NoArray, exc |-> "none"]
    /\ FilterIdle /\ ForcingIdle /\ SwanIdle

\* Constant.__call__: np.full(data.shape, self.val)
Constant_call ==
    /\ mret.pc = "ready" /\ mesher.kind = "Constant"
    /\ mret' = [pc |-> "returned", out |-> full(marg.data.shape, Num(mesher.val)),
                exc |-> "none"]
    /\ UNCHANGED <<marg, marg0, mesher, filterVars, forcingVars, swanVars>>

\* Interpolate.__call__: the samples that are not > 0 are set to 0 in the
\* caller's array, then griddata is called; a degenerate sample set makes the
\* triangulation of 'linear' and 'cubic' fail, after the write to data
Interpolate_call ==
    /\ mret.pc = "ready" /\ mesher.kind = "Interpolate"
    /\ LET data1 == setitem(marg.data, land_points(marg.data), Num(0))
       IN /\ marg' = [marg EXCEPT !.data = data1]
          /\ IF mesher.method # "nearest" /\ Degenerate(marg.lon, marg.lat)
             THEN mret' = [pc |-> "raised", out |-> NoArray, exc |-> "QhullError"]
             ELSE \E tie \in {"first", "last"}, w \in {NaN, Num(0)} :
                     mret' = [pc |-> "returned",
                              out |-> griddata(data1, marg.lon, marg.lat, marg.lonQ,
                                               marg.latQ, mesher.method, tie, w),
                              exc |-> "none"]
    /\ UNCHANGED <<marg0, mesher, filterVars, forcingVars, swanVars>>

MeshNext == Constant_call \/ Interpolate_call

SpecMesh == MeshInit /\ [][MeshNext]_vars

(***************************************************************************)
(* Claims about the meshers (checked under SpecMesh).                      *)
(***************************************************************************)
\* C4: Constant(v) returns an array of the shape (m, n) of the target grid, not
\* of the input samples, in which every element equals v.
C4_ConstantTargetShape ==
    (mret.pc = "returned" /\ mesher.kind = "Constant") =>
        /\ mret.out.shape = marg0.lonQ.shape
        /\ Len(mret.out.flat) = Len(marg0.lonQ.flat)
        /\ \A k \in 1..Len(mret.out.flat) : mret.out.flat[k] = Num(mesher.val)

\* what C4 does get right: every element of Constant's result equals v
C4_ConstantValue ==
    (mret.pc = "returned" /\ mesher.kind = "Constant") =>
        \A k \in 1..Len(mret.out.flat) : mret.out.flat[k] = Num(mesher.val)

\* the zero-clamp of the claim: a sample that is not > 0 counts as 0
Clamped(v) == IF (~v.nan) /\ v.x > 0 THEN v ELSE Num(0)

\* C5: Interpolate returns an array of the shape (m, n) of the target grid, and
\* with method 'nearest' the result at a target point that is a sample point is
\* that sample's value, with a sample that is not > 0 (negative, zero, NaN)
\* counted as 0.
C5_InterpolateShapeAndNearest ==
    (mret.pc = "returned" /\ mesher.kind = "Interpolate") =>
        /\ mret.out.shape = marg0.lonQ.shape
        /\ Len(mret.out.flat) = marg0.lonQ.shape[1] * marg0.lonQ.shape[2]
        /\ mesher.method = "nearest" =>
              \A k \in 1..Len(marg0.lonQ.flat), s \in 1..Len(marg0.data.flat) :
                  (marg0.lon.flat[s] = marg0.lonQ.flat[k]
                      /\ marg0.lat.flat[s] = marg0.latQ.flat[k])
                  => mret.out.flat[k] = Clamped(marg0.data.flat[s])

\* C5's case: 'nearest' has returned on a 2x2 target grid with three samples,
\* among them a NaN sample, a negative sample and a positive one, each at a
\* target point.
C5_Witness ==
    /\ mret.pc = "returned" /\ mesher.kind = "Interpolate" /\ mesher.method = "nearest"
    /\ marg0.lonQ.shape = <<2, 2>> /\ Len(marg0.data.flat) = 3
    /\ \A v \in {NaN, Num(-3), Num(4)} :
          \E k \in 1..Len(marg0.lonQ.flat), s \in 1..Len(marg0.data.flat) :
              /\ marg0.data.flat[s] = v
              /\ marg0.lon.flat[s] = marg0.lonQ.flat[k]
              /\ marg0.lat.flat[s] = marg0.latQ.flat[k]
              /\ mret.out.flat[k] = Clamped(v)

(***************************************************************************)
(* Times.  A time is a number of seconds since 2020-01-01T00:00:00; wind   *)
(* speeds are in units of 1/16 m/s, so that x*1000 is exact in binary      *)
(* floating point and only the integer conversion loses anything.          *)
(***************************************************************************)
SecPerDay == 24 * 3600
Unit == 2 * 2 * 2 * 2

DayOf(t) == t \div SecPerDay
SecOf(t) == t % SecPerDay

\* strftime('%Y%m%d') of a day of January 2020
Ymd(day) == 2020 * 10000 + 100 + (day + 1)

\* strftime('%H%M%S') of the time of day
Hms(sec) == (sec \div 3600) * 10000 + ((sec % 3600) \div 60) * 100 + (sec % 60)

\* pandas' reading of "YYYY-MM-DD" + "Thh:mm:ss" back into a time
ParseIso(ymd, sec) == (ymd - (2020 * 10000 + 100 + 1)) * SecPerDay + sec

\* the times of day at which the wind source of the model has data
SlotSecs == <<0, 6 * 3600, SecPerDay - 1>>

SourceTimes == {d * SecPerDay + SlotSecs[i] : d \in 0..(MaxDays - 1), i \in 1..Len(SlotSecs)}

\* which of the slots the source holds: all of them, or some only
SlotPatterns == {{1, 2, 3}, {2, 3}}

SlotIndex(t) == CHOOSE i \in 1..Len(SlotSecs) : SlotSecs[i] = SecOf(t)

\* the index of a time among all source times, 0-based
TimeCode(t) == DayOf(t) * Len(SlotSecs) + SlotIndex(t) - 1

RECURSIVE SortedSeq(_)
SortedSeq(S) == IF S = {} THEN <<>>
                ELSE LET x == CHOOSE y \in S : \A z \in S : y <= z
                     IN <<x>> \o SortedSeq(S \ {x})

\* the wind of the source at time t, cell k of the grid, in units of 1/16 m/s:
\* at the first source time 1.0, 2.0, 3.0, 4.0; later times are fractional
\* and of alternating sign
UWind(t, k) == LET c == TimeCode(t)
               IN IF c % 2 = 0 THEN Unit * k + 5 * c ELSE 0 - (Unit * k + 5 * c)
VWind(t, k) == 7 - Unit * k + 11 * TimeCode(t)

\* a ForcingReader: the dataset of the source's time steps within
\* [start_time, end_time], u and v of shape (time, lat, lon)
ForcingReader(grid, start_time, end_time, pattern) ==
    LET ts == SortedSeq({t \in SourceTimes :
                  start_time <= t /\ t <= end_time /\ SlotIndex(t) \in pattern})
        cells == grid.ny * grid.nx
    IN [time |-> ts,
        u |-> [i \in 1..Len(ts) |->
                 [shape |-> <<grid.ny, grid.nx>>,
                  flat |-> [k \in 1..cells |-> UWind(ts[i], k)]]],
        v |-> [i \in 1..Len(ts) |->
                 [shape |-> <<grid.ny, grid.nx>>,
                  flat |-> [k \in 1..cells |-> VWind(ts[i], k)]]]]

Grids == {[name |-> "TestGrid", ny |-> ny, nx |-> nx] : ny \in 1..MaxNy, nx \in 1..MaxNx}

\* the arguments of import_forcing: a start at midnight, an end not before it
ImportArgs ==
    {a \in [start_time : {d * SecPerDay : d \in 0..(MaxDays - 1)},
            end_time : SourceTimes, pattern : SlotPatterns] :
        /\ a.start_time <= a.end_time
        /\ ForcingReader([name |-> "g", ny |-> 1, nx |-> 1],
                         a.start_time, a.end_time, a.pattern).time # <<>>}

\* Forcing.__init__
Forcing_init(grid, name) == [grid |-> grid, name |-> name, imported |-> FALSE]

\* the attributes import_forcing sets exist on the object
HasTimes(f) == "start_time" \in DOMAIN f
HasData(f) == "data" \in DOMAIN f

\* a request the wind source cannot serve: the reader raises on it
Outage == [start_time |-> 0, end_time |-> SecPerDay - 1, pattern |-> {}]

\* forcing_reader(grid, start_time, end_time, expansion_factor) raises
reader_raises(a) == a.pattern = {}

\* the object when import_forcing is left by an exception of the reader:
\* start_time and end_time are set, data is as it was
ImportRaised(f, a) ==
    IF HasData(f)
    THEN [grid |-> f.grid, name |-> f.name, imported |-> f.imported,
          start_time |-> a.start_time, end_time |-> a.end_time, data |-> f.data]
    ELSE [grid |-> f.grid, name |-> f.name, imported |-> f.imported,
          start_time |-> a.start_time, end_time |-> a.end_time]

\* an import that sets the time span once only: a later import keeps it
Imported_keeps_times(f, a) ==
    [grid |-> f.grid, name |-> f.name, imported |-> TRUE,
     start_time |-> IF HasTimes(f) THEN f.start_time ELSE a.start_time,
     end_time |-> IF HasTimes(f) THEN f.end_time ELSE a.end_time,
     data |-> ForcingReader(f.grid, a.start_time, a.end_time, a.pattern)]

\* the object after Forcing.import_forcing has returned
Imported(f, a) ==
    [grid |-> f.grid, name |-> f.name, imported |-> TRUE,
     start_time |-> a.start_time, end_time |-> a.end_time,
     data |-> ForcingReader(f.grid, a.start_time, a.end_time, a.pattern)]

\* Forcing.time(), Forcing.u(), Forcing.v()
Forcing_time(f) == f.data.time
Forcing_u(f) == f.data.u
Forcing_v(f) == f.data.v

\* Forcing.name()
Forcing_name(f) == f.name

\* Forcing.lon(), Forcing.lat(): the coordinate of the dataset if it has one,
\* an empty array otherwise
Forcing_lon(f) == IF "lon" \in DOMAIN f.data THEN f.data.lon ELSE <<>>
Forcing_lat(f) == IF "lat" \in DOMAIN f.data THEN f.data.lat ELSE <<>>

\* the index's searchsorted(x, side='left'): how many labels are < x
searchsorted_left(times, x) == Cardinality({i \in 1..Len(times) : times[i] < x})

\* a right bound that is exclusive: side='left' taken for it
searchsorted_right_exclusive(times, x) == Cardinality({i \in 1..Len(times) : times[i] < x})

\* the index's searchsorted(x, side='right'): how many labels are <= x
searchsorted_right(times, x) == Cardinality({i \in 1..Len(times) : times[i] <= x})

\* data.sel(time=slice(start, end)) on the sorted time index
sel_time(data, start, end) ==
    LET lo == searchsorted_left(data.time, start)
        hi == searchsorted_right(data.time, end)
    IN [time |-> SubSeq(data.time, lo + 1, hi),
        u |-> SubSeq(data.u, lo + 1, hi),
        v |-> SubSeq(data.v, lo + 1, hi)]

\* an unspecified bound is the empty string
Unset == [given |-> FALSE, t |-> 0]
At(t) == [given |-> TRUE, t |-> t]

\* Forcing.slice_data
slice_data(f, start_time, end_time) ==
    LET t0 == IF ~start_time.given THEN Forcing_time(f)[1] ELSE start_time.t
        t1 == IF ~end_time.given THEN Forcing_time(f)[Len(Forcing_time(f))] ELSE end_time.t
    IN sel_time(f.data, t0, t1)

\* Forcing.times_in_day
times_in_day(f, day) ==
    LET t0 == ParseIso(Ymd(day), 0)
        t1 == ParseIso(Ymd(day), 23 * 3600 + 59 * 60 + 59)
    IN slice_data(f, At(t0), At(t1)).time

\* aux.day_list: the days from the day of start_time to the day of end_time
day_list(start_time, end_time) ==
    [i \in 1..(DayOf(end_time) - DayOf(start_time) + 1) |-> DayOf(start_time) + i - 1]

\* Forcing.days
Forcing_days(f) == day_list(f.start_time, f.end_time)

(***************************************************************************)
(* The SWAN writer's loop: src/dnora/wnd/write.py, lines 87-100            *)
(***************************************************************************)
Scale == 1000

\* '%i' done as a floor: wrong for negative values
fmt_i_floor(num, den) == num \div den

\* '%i' % (num/den): the integer part, truncated toward zero
fmt_i(num, den) == IF num >= 0 THEN num \div den ELSE 0 - ((0 - num) \div den)

StampLine(t) == [kind |-> "stamp", text |-> <<Ymd(DayOf(t)), Hms(SecOf(t))>>]

\* np.savetxt(file_out, grid*1000, fmt='%i'): one line per row of the grid
savetxt(grid) ==
    [i \in 1..grid.shape[1] |->
        [kind |-> "row",
         text |-> [j \in 1..grid.shape[2] |-> fmt_i(Row(grid, i)[j] * Scale, Unit)]]]

\* the record without the second timestamp line
swan_record_one_stamp(t, ugrid, vgrid) ==
    <<StampLine(t)>> \o savetxt(ugrid) \o savetxt(vgrid)

\* what one pass of the inner loop writes
swan_record(t, ugrid, vgrid) ==
    <<StampLine(t)>> \o savetxt(ugrid) \o <<StampLine(t)>> \o savetxt(vgrid)

SwanInit ==
    /\ \E g \in Grids, a \in ImportArgs :
          forcing = Imported(Forcing_init(g, "AnonymousForcing"), a)
    /\ fs = {}
    /\ call = NoCall
    /\ file = <<>>
    /\ swan = [pc |-> "start", days |-> <<>>, d |-> 0, times |-> <<>>, n |-> 0]
    /\ FilterIdle /\ MeshIdle

\* days = forcing.days(); with open(output_path, 'w') as file_out
SWAN_open ==
    /\ swan.pc = "start"
    /\ swan' = [pc |-> "loop", days |-> Forcing_days(forcing), d |-> 0,
                times |-> <<>>, n |-> 0]
    /\ file' = <<>>
    /\ UNCHANGED <<filterVars, meshVars, forcingVars>>

\* for day in days: times = forcing.times_in_day(day)
SWAN_next_day ==
    /\ swan.pc = "loop" /\ swan.n = Len(swan.times) /\ swan.d < Len(swan.days)
    /\ swan' = [swan EXCEPT !.d = swan.d + 1,
                            !.times = times_in_day(forcing, swan.days[swan.d + 1]),
                            !.n = 0]
    /\ UNCHANGED <<file, filterVars, meshVars, forcingVars>>

\* for n in range(len(times)): timestamp, u()[n], timestamp, v()[n]
SWAN_write_step ==
    /\ swan.pc = "loop" /\ swan.n < Len(swan.times)
    /\ file' = file \o swan_record(swan.times[swan.n + 1],
                                   Forcing_u(forcing)[swan.n + 1],
                                   Forcing_v(forcing)[swan.n + 1])
    /\ swan' = [swan EXCEPT !.n = swan.n + 1]
    /\ UNCHANGED <<filterVars, meshVars, forcingVars>>

\* the loops are over: the file is closed
SWAN_close ==
    /\ swan.pc = "loop" /\ swan.n = Len(swan.times) /\ swan.d = Len(swan.days)
    /\ swan' = [swan EXCEPT !.pc = "done"]
    /\ UNCHANGED <<file, filterVars, meshVars, forcingVars>>

SwanNext == SWAN_open \/ SWAN_next_day \/ SWAN_write_step \/ SWAN_close

SpecSwan == SwanInit /\ [][SwanNext]_vars

(***************************************************************************)
(* Claims about the SWAN writer's loop (checked under SpecSwan).           *)
(***************************************************************************)
\* z is num/den with the fraction dropped, toward zero
IsTruncated(z, num, den) ==
    IF num >= 0 THEN z >= 0 /\ z * den <= num /\ num < (z + 1) * den
    ELSE z <= 0 /\ z * den >= num /\ num > (z - 1) * den

\* line is the YYYYMMDD.HHMMSS line of the time t
IsStampOf(line, t) ==
    /\ line.kind = "stamp" /\ Len(line.text) = 2
    /\ line.text[1] = 20200101 + DayOf(t)
    /\ LET h == line.text[2] \div 10000
           mi == (line.text[2] \div 100) % 100
           sec == line.text[2] % 100
       IN /\ h \in 0..23 /\ mi \in 0..59 /\ sec \in 0..59
          /\ h * 3600 + mi * 60 + sec = SecOf(t)

\* the ny lines after position b of the file are the grid, times 1000, as integers
IsGridDump(b, grid) ==
    \A i \in 1..grid.shape[1] :
        /\ file[b + i].kind = "row"
        /\ Len(file[b + i].text) = grid.shape[2]
        /\ \A j \in 1..grid.shape[2] :
              IsTruncated(file[b + i].text[j],
                          grid.flat[(i - 1) * grid.shape[2] + j] * 1000, Unit)

StampBefore(a, b) == a[1] < b[1] \/ (a[1] = b[1] /\ a[2] < b[2])

LinesPerStep == 2 + 2 * forcing.grid.ny

OneDay ==
    /\ Len(swan.days) = 1
    /\ \A i \in 1..Len(Forcing_time(forcing)) :
          DayOf(Forcing_time(forcing)[i]) = swan.days[1]

RecordsOf(i) ==
    {r \in 0..((Len(file) \div LinesPerStep) - 1) :
        IsStampOf(file[r * LinesPerStep + 1], Forcing_time(forcing)[i])}

\* the day-local index of time step i: its position among the time steps of its day
DayLocalIndex(i) ==
    Cardinality({j \in 1..i :
        DayOf(Forcing_time(forcing)[j]) = DayOf(Forcing_time(forcing)[i])})

\* C11: for a forcing of any number of days, once the writer is done every time
\* step of the forcing has been written exactly once, and the u and v grids
\* after the timestamp line of time step t are the wind of that same time step
\* (the grids at the global time index of t), not those of another day.
C11_GridOfSameTimeStep ==
    swan.pc = "done" =>
        /\ Len(file) = Len(Forcing_time(forcing)) * LinesPerStep
        /\ \A i \in 1..Len(Forcing_time(forcing)) :
              /\ Cardinality(RecordsOf(i)) = 1
              /\ \A r \in RecordsOf(i) :
                    /\ IsGridDump(r * LinesPerStep + 1, Forcing_u(forcing)[i])
                    /\ IsGridDump(r * LinesPerStep + 2 + forcing.grid.ny,
                                  Forcing_v(forcing)[i])

\* what the loop does write: every time step exactly once, and after the
\* timestamp line of time step t the grids at the index t has within its own
\* day, which are those of t on the first day only
C11_GridOfDayLocalIndex ==
    swan.pc = "done" =>
        /\ Len(file) = Len(Forcing_time(forcing)) * LinesPerStep
        /\ \A i \in 1..Len(Forcing_time(forcing)) :
              /\ Cardinality(RecordsOf(i)) = 1
              /\ \A r \in RecordsOf(i) :
                    /\ IsGridDump(r * LinesPerStep + 1,
                                  Forcing_u(forcing)[DayLocalIndex(i)])
                    /\ IsGridDump(r * LinesPerStep + 2 + forcing.grid.ny,
                                  Forcing_v(forcing)[DayLocalIndex(i)])

\* the case of C11: the writer is done with a forcing of two days, and the
\* first record of the second day carries the u rows of the first time step
\* of the first day, which differ from the second day's own
C11_SecondDayCarriesFirstDay ==
    /\ swan.pc = "done" /\ Len(swan.days) = 2
    /\ \E i \in 2..Len(Forcing_time(forcing)) :
          /\ DayOf(Forcing_time(forcing)[i]) = 1
          /\ DayOf(Forcing_time(forcing)[i - 1]) = 0
          /\ \E r \in RecordsOf(i) :
                /\ IsGridDump(r * LinesPerStep + 1, Forcing_u(forcing)[1])
                /\ ~IsGridDump(r * LinesPerStep + 1, Forcing_u(forcing)[i])

(***************************************************************************)
(* The Forcing container: src/dnora/wnd/wnd_mod.py.  A string that is a    *)
(* template is a sequence of tokens: a placeholder ($Grid), a piece of     *)
(* text, or a time printed under a date format.                            *)
(***************************************************************************)
Ph(name) == [t |-> "ph", s |-> name, n |-> <<>>]
Text(str) == [t |-> "text", s |-> str, n |-> <<>>]
Date(ds, digits) == [t |-> "date", s |-> ds, n |-> digits]

None == [none |-> TRUE, s |-> <<>>]
Some(x) == [none |-> FALSE, s |-> x]

\* pd.Timestamp(t).strftime(datestring): the groups of digits it prints
Strftime(t, ds) ==
    IF ds = "%Y%m%dT%H%M" THEN <<Ymd(DayOf(t)), Hms(SecOf(t)) \div 100>>
    ELSE <<Ymd(DayOf(t))>>

\* defaults.dflt_frc: the templates of each output format
dflt_frc ==
    [fs |-> [General |-> <<Text("wind_"), Ph("$Forcing"), Text("_"), Ph("$Grid"),
                           Text("_"), Ph("$T0"), Text("_"), Ph("$T1")>>,
             WW3 |-> <<Text("wind_"), Ph("$Forcing"), Text("_"), Ph("$Grid"),
                       Text("_"), Ph("$T0"), Text("_"), Ph("$T1")>>,
             SWAN |-> <<Text("wind"), Ph("$Forcing"), Ph("$Grid"), Ph("$T0"),
                        Text("_"), Ph("$T1")>>],
     ds |-> [General |-> "%Y%m%dT%H%M", WW3 |-> "%Y%m%dT%H%M", SWAN |-> "%Y%m%d"],
     fldr |-> [General |-> <<Text("output")>>, WW3 |-> <<Text("output")>>,
               SWAN |-> <<Text("output")>>],
     ext |-> [General |-> "nc", WW3 |-> "nc", SWAN |-> "asc"]]

\* defaults.list_of_placeholders
list_of_placeholders == {"$Grid", "$Forcing", "$Boundary", "$Spectra", "$T0", "$T1"}

\* the objects handed to create_filename_obj: type name and name()
Objects(f) == <<[type |-> "Forcing", name |-> f.name],
                [type |-> "Grid", name |-> f.grid.name]>>

\* aux.create_filename_obj: "$<Type>" becomes the name of the object of that type
create_filename_obj(filestring, objects) ==
    [k \in 1..Len(filestring) |->
        IF filestring[k].t = "ph"
              /\ \E o \in 1..Len(objects) : filestring[k].s = "$" \o objects[o].type
        THEN Text(objects[CHOOSE o \in 1..Len(objects) :
                             filestring[k].s = "$" \o objects[o].type].name)
        ELSE filestring[k]]

\* aux.create_filename_time: "$T0", "$T1" become the times under datestring
create_filename_time(filestring, times, datestring) ==
    [k \in 1..Len(filestring) |->
        IF filestring[k] = Ph("$T0") THEN Date(datestring, Strftime(times[1], datestring))
        ELSE IF filestring[k] = Ph("$T1")
             THEN Date(datestring, Strftime(times[2], datestring))
             ELSE filestring[k]]

\* aux.clean_filename: the placeholders of the list are taken out
clean_filename(filename, placeholders) ==
    SelectSeq(filename, LAMBDA tok : ~(tok.t = "ph" /\ tok.s \in placeholders))

\* Forcing.filename
Forcing_filename(f, filestring, datestring, defaults) ==
    LET fstr == IF defaults # "" THEN dflt_frc.fs[defaults] ELSE filestring
        dstr == IF defaults # "" THEN dflt_frc.ds[defaults] ELSE datestring
        filename == create_filename_obj(fstr, Objects(f))
    IN create_filename_time(filename, <<f.start_time, f.end_time>>, dstr)

\* Forcing.folder
Forcing_folder(f, folderstring, datestring) ==
    LET folder == create_filename_obj(folderstring, Objects(f))
        folder1 == create_filename_time(folder, <<f.start_time, f.end_time>>, datestring)
    IN clean_filename(folder1, list_of_placeholders)

\* the attributes of a ForcingWriter (write.py: ForcingWriter, WW3, SWAN)
WriterMethods(kind) == {"__init__", "__call__", "create_filename"}

\* the parameters WW3.__call__ and SWAN.__call__ take
WriterParams(kind) == {"forcing"}

\* the parameters Forcing.filename takes
FilenameParams == {"filestring", "datestring", "defaults"}

\* a call f(..., **kwargs) binds iff every keyword is a parameter
Binds(params, kwargs) == kwargs \subseteq params

\* forcing_writer(forcing, **kwargs): WW3.__call__ / SWAN.__call__ up to the
\* name of the output file
writer_call(kind, f, kwargs) ==
    IF ~Binds(WriterParams(kind), kwargs)
    THEN [status |-> "raised", exc |-> "TypeError", value |-> <<>>]
    ELSE IF ~Binds(FilenameParams, {"filestring", "datestring", "extension"})
         THEN [status |-> "raised", exc |-> "TypeError", value |-> <<>>]
         ELSE [status |-> "returned", exc |-> "none",
               value |-> <<Forcing_filename(f, dflt_frc.fs[kind], dflt_frc.ds[kind], ""),
                           <<>>>>]

Templates ==
    {<<Ph("$Grid"), Text("_"), Ph("$T0"), Text("_"), Ph("$T1")>>,
     <<Text("wind"), Ph("$Forcing"), Ph("$Grid")>>,
     <<Ph("$Grid"), Text("_"), Ph("$Boundary"), Text("_"), Ph("$T0")>>,
     <<Text("out")>>}

DateStrings == {"%Y-%m-%d", "%Y%m%dT%H%M"}

\* slice bounds: unset, or a time on or between the labels of the index, on
\* the first or the last day of the source
Bounds == {Unset} \cup {At(d * SecPerDay + x) :
                            d \in {0, MaxDays - 1}, x \in {0, 3 * 3600, SecPerDay - 1}}

ForcingInit ==
    /\ forcing = Forcing_init([name |-> "TestGrid", ny |-> 1, nx |-> 2], "AnonymousForcing")
    /\ fs = {}
    /\ call = NoCall
    /\ FilterIdle /\ MeshIdle /\ SwanIdle

Raised(op, exc, args) ==
    [op |-> op, status |-> "raised", exc |-> exc, value |-> <<>>, args |-> args,
     pre |-> forcing]

Returned(op, value, args) ==
    [op |-> op, status |-> "returned", exc |-> "none", value |-> value, args |-> args,
     pre |-> forcing]

\* Forcing.import_forcing
import_forcing ==
    /\ \E a \in ImportArgs \cup {Outage} :
          IF reader_raises(a)
          THEN /\ forcing' = ImportRaised(forcing, a)
               /\ call' = [Raised("import_forcing", "ReaderError", a) EXCEPT !.pre = <<>>]
          ELSE /\ forcing' = Imported(forcing, a)
               /\ call' = [Returned("import_forcing", <<>>, a) EXCEPT !.pre = <<>>]
    /\ UNCHANGED <<fs, filterVars, meshVars, swanVars>>

\* Forcing.filename, called by the user
filename_call ==
    /\ \E filestring \in Templates, datestring \in DateStrings, defaults \in {"", "SWAN"} :
          LET args == [filestring |-> filestring, datestring |-> datestring,
                       defaults |-> defaults]
          IN call' = IF ~HasTimes(forcing) THEN Raised("filename", "AttributeError", args)
                     ELSE Returned("filename",
                              Forcing_filename(forcing, filestring, datestring, defaults),
                              args)
    /\ UNCHANGED <<forcing, fs, filterVars, meshVars, swanVars>>

\* Forcing.folder
folder_call ==
    /\ \E folderstring \in Templates, datestring \in DateStrings :
          LET args == [filestring |-> folderstring, datestring |-> datestring,
                       defaults |-> ""]
          IN call' = IF ~HasTimes(forcing) THEN Raised("folder", "AttributeError", args)
                     ELSE Returned("folder",
                              Forcing_folder(forcing, folderstring, datestring), args)
    /\ UNCHANGED <<forcing, fs, filterVars, meshVars, swanVars>>

\* Forcing.days
days_call ==
    /\ call' = IF ~HasTimes(forcing) THEN Raised("days", "AttributeError", <<>>)
               ELSE Returned("days", Forcing_days(forcing), <<>>)
    /\ UNCHANGED <<forcing, fs, filterVars, meshVars, swanVars>>

\* Forcing.slice_data
slice_data_call ==
    /\ \E start_time \in Bounds, end_time \in Bounds :
          LET args == [start_time |-> start_time, end_time |-> end_time]
          IN call' = IF ~HasData(forcing) THEN Raised("slice_data", "AttributeError", args)
                     ELSE Returned("slice_data",
                                   slice_data(forcing, start_time, end_time), args)
    /\ UNCHANGED <<forcing, fs, filterVars, meshVars, swanVars>>

\* Forcing.times_in_day
times_in_day_call ==
    /\ \E day \in 0..(MaxDays - 1) :
          call' = IF ~HasData(forcing)
                  THEN Raised("times_in_day", "AttributeError", [day |-> day])
                  ELSE Returned("times_in_day", times_in_day(forcing, day), [day |-> day])
    /\ UNCHANGED <<forcing, fs, filterVars, meshVars, swanVars>>

\* Forcing.export_forcing
export_forcing ==
    /\ \E writer \in {"WW3", "SWAN"}, out_format \in {"None", "WW3", "SWAN"},
          given \in BOOLEAN :
          LET filestring == IF given THEN Some(<<Ph("$Grid"), Text("_"), Ph("$T0")>>)
                            ELSE None
              folder == IF given THEN Some(<<Text("out_"), Ph("$Grid")>>) ELSE None
              args == [writer |-> writer, out_format |-> out_format,
                       filestring |-> filestring, folder |-> folder]
          IN IF out_format = "None" /\ "_preferred_format" \notin WriterMethods(writer)
             THEN \* line 49: the writer has no _preferred_format
                  /\ call' = Raised("export_forcing", "AttributeError", args)
                  /\ fs' = fs
             ELSE IF ~HasTimes(forcing)
             THEN \* line 57: filename reads self.start_time
                  /\ call' = Raised("export_forcing", "AttributeError", args)
                  /\ fs' = fs
             ELSE LET fmt == IF out_format = "None" THEN writer ELSE out_format
                      fstr == IF filestring.none THEN dflt_frc.fs[fmt] ELSE filestring.s
                      dstr == dflt_frc.ds[fmt]
                      filename == Forcing_filename(forcing, fstr, dstr, "")
                      fldr == IF ~folder.none
                              THEN Forcing_filename(forcing, folder.s,
                                                    dflt_frc.ds["General"], "")
                              ELSE Forcing_filename(forcing, dflt_frc.fldr[fmt],
                                                    dflt_frc.ds["General"], "")
                      out == writer_call(writer, forcing, {"filename", "folder"})
                  IN \* check_if_folder(folder, create=True), then the writer
                     /\ fs' = fs \cup {fldr}
                     /\ call' = [op |-> "export_forcing", status |-> out.status,
                                 exc |-> out.exc, value |-> out.value, args |-> args,
                                 pre |-> forcing]
    /\ UNCHANGED <<forcing, filterVars, meshVars, swanVars>>

Accessors == {"name", "time", "u", "v", "lon", "lat"}

\* Forcing.name, time, u, v, lon, lat: each returns a copy of what it reads
accessor_call ==
    /\ \E acc \in Accessors :
          call' = IF acc = "name" THEN Returned(acc, Forcing_name(forcing), <<>>)
                  ELSE IF ~HasData(forcing) THEN Raised(acc, "AttributeError", <<>>)
                  ELSE IF acc = "time" THEN Returned(acc, Forcing_time(forcing), <<>>)
                  ELSE IF acc = "u" THEN Returned(acc, Forcing_u(forcing), <<>>)
                  ELSE IF acc = "v" THEN Returned(acc, Forcing_v(forcing), <<>>)
                  ELSE IF acc = "lon" THEN Returned(acc, Forcing_lon(forcing), <<>>)
                  ELSE Returned(acc, Forcing_lat(forcing), <<>>)
    /\ UNCHANGED <<forcing, fs, filterVars, meshVars, swanVars>>

ForcingNext ==
    \/ import_forcing
    \/ filename_call
    \/ folder_call
    \/ days_call
    \/ slice_data_call
    \/ times_in_day_call
    \/ export_forcing
    \/ accessor_call

SpecForcing == ForcingInit /\ [][ForcingNext]_vars

(***************************************************************************)
(* Claims about the Forcing container (checked under SpecForcing).         *)
(***************************************************************************)
\* C8: export_forcing on an imported Forcing, with the WW3 or the SWAN writer,
\* ensures the folder exists, invokes the writer and returns the writer's
\* (output_files, output_folder) without raising.
C8_ExportReturns ==
    (call.op = "export_forcing" /\ call.pre.imported) =>
        /\ call.status = "returned"
        /\ Len(call.value) = 2

\* C9: the name Forcing.filename or Forcing.folder returns has every known
\* placeholder replaced and holds no placeholder at all (an unresolved one is
\* stripped); "$Grid_$T0_$T1" with grid TestGrid from 2020-01-01 to 2020-01-02
\* gives TestGrid_2020-01-01_2020-01-02.
C9_NoPlaceholderLeft ==
    (call.op \in {"filename", "folder"} /\ call.status = "returned") =>
        /\ \A k \in 1..Len(call.value) : call.value[k].t # "ph"
        /\ (/\ call.args.filestring = <<Ph("$Grid"), Text("_"), Ph("$T0"), Text("_"), Ph("$T1")>>
            /\ call.args.defaults = "" /\ call.args.datestring = "%Y-%m-%d"
            /\ DayOf(call.pre.start_time) = 0 /\ DayOf(call.pre.end_time) = 1)
           => call.value = <<Text("TestGrid"), Text("_"), Date("%Y-%m-%d", <<20200101>>),
                             Text("_"), Date("%Y-%m-%d", <<20200102>>)>>

\* the part of C9 that does hold for both names: the example, and the four
\* placeholders of a Forcing never survive
C9_KnownPlaceholdersReplaced ==
    (call.op \in {"filename", "folder"} /\ call.status = "returned") =>
        /\ \A k \in 1..Len(call.value) :
              call.value[k].t = "ph" => call.value[k].s \notin {"$Grid", "$Forcing", "$T0", "$T1"}
        /\ (/\ call.args.filestring = <<Ph("$Grid"), Text("_"), Ph("$T0"), Text("_"), Ph("$T1")>>
            /\ call.args.defaults = "" /\ call.args.datestring = "%Y-%m-%d"
            /\ DayOf(call.pre.start_time) = 0 /\ DayOf(call.pre.end_time) = 1)
           => call.value = <<Text("TestGrid"), Text("_"), Date("%Y-%m-%d", <<20200101>>),
                             Text("_"), Date("%Y-%m-%d", <<20200102>>)>>

\* the index of time t among the time steps of a dataset
IndexOf(data, t) == CHOOSE i \in 1..Len(data.time) : data.time[i] = t

\* C10: slice_data returns exactly the time steps t with start <= t <= end, in
\* their order and with their own u and v; an unset start is the first time
\* step and an unset end the last, so no bounds give every time step; and the
\* Forcing is left as it was.
C10_SliceInclusive ==
    (call.op = "slice_data" /\ call.status = "returned") =>
        LET data == call.pre.data
            lo == IF call.args.start_time.given THEN call.args.start_time.t
                  ELSE data.time[1]
            hi == IF call.args.end_time.given THEN call.args.end_time.t
                  ELSE data.time[Len(data.time)]
            got == call.value
        IN /\ got.time = SelectSeq(data.time, LAMBDA t : lo <= t /\ t <= hi)
           /\ Len(got.u) = Len(got.time) /\ Len(got.v) = Len(got.time)
           /\ \A j \in 1..Len(got.time) :
                 /\ got.u[j] = data.u[IndexOf(data, got.time[j])]
                 /\ got.v[j] = data.v[IndexOf(data, got.time[j])]
           /\ (~call.args.start_time.given /\ ~call.args.end_time.given) => got = data
           /\ forcing = call.pre

\* C10's case: a slice whose two bounds are time steps of the forcing, with
\* time steps before the start and after the end left out.
C10_Witness ==
    /\ call.op = "slice_data" /\ call.status = "returned"
    /\ call.args.start_time.given /\ call.args.end_time.given
    /\ Len(call.value.time) >= 2
    /\ call.value.time[1] = call.args.start_time.t
    /\ call.value.time[Len(call.value.time)] = call.args.end_time.t
    /\ call.pre.data.time[1] < call.args.start_time.t
    /\ call.pre.data.time[Len(call.pre.data.time)] > call.args.end_time.t

\* the operations that read the Forcing and leave a result to the caller
ReadOnlyOps ==
    {"filename", "folder", "days", "slice_data", "times_in_day", "export_forcing"}
    \cup Accessors

\* a new Forcing has neither start_time, end_time nor data
NothingImported == ~HasTimes(forcing) /\ ~HasData(forcing)

\* filename, folder, days and export_forcing on a Forcing no import_forcing was
\* called on have raised, and returned no name
FailsBeforeImport ==
    (call.op \in {"filename", "folder", "days", "export_forcing"} /\ ~HasTimes(call.pre))
        => call.status = "raised" /\ call.exc = "AttributeError" /\ call.value = <<>>

\* a step of an operation other than import_forcing leaves the Forcing as it
\* is, and a step of export_forcing before any import_forcing the folders too
OnlyImportChanges ==
    /\ call'.op \in ReadOnlyOps => forcing' = forcing
    /\ (call'.op = "export_forcing" /\ ~HasTimes(forcing)) => fs' = fs

\* a step of import_forcing keeps the grid and the name
ImportKeepsGridAndName ==
    call'.op = "import_forcing" =>
        forcing'.grid = forcing.grid /\ forcing'.name = forcing.name

\* the reader's result for the arguments of the last call, an import_forcing
ReaderResult ==
    ForcingReader(forcing.grid, call.args.start_time, call.args.end_time,
                  call.args.pattern)

\* an import_forcing whose reader raised has left data as it was
RaisedImportKeepsData ==
    (call'.op = "import_forcing" /\ call'.status = "raised") =>
        /\ HasData(forcing') = HasData(forcing)
        /\ HasData(forcing) => forcing'.data = forcing.data

\* C12 as stated: a new Forcing has no start_time, end_time or data; after
\* import_forcing the three are the arguments and the reader's result of that
\* call; filename, folder, days and export_forcing before any import_forcing
\* fail; and no other operation changes the Forcing.
C12_AttributesOfLastImport ==
    /\ NothingImported
    /\ [](/\ FailsBeforeImport
          /\ call.op = "import_forcing" =>
                /\ HasTimes(forcing) /\ HasData(forcing)
                /\ forcing.start_time = call.args.start_time
                /\ forcing.end_time = call.args.end_time
                /\ forcing.data = ReaderResult)
    /\ [][OnlyImportChanges /\ ImportKeepsGridAndName]_vars

\* C12 amended: start_time and end_time are the arguments of the most recent
\* call of import_forcing, whether it returned or its reader raised; data is
\* the reader's result of the most recent import_forcing that returned, and
\* does not exist before one has; the rest as stated.
C12_LifeCycle ==
    /\ NothingImported
    /\ [](/\ FailsBeforeImport
          /\ HasData(forcing) => HasTimes(forcing)
          /\ call.op = "import_forcing" =>
                /\ HasTimes(forcing)
                /\ forcing.start_time = call.args.start_time
                /\ forcing.end_time = call.args.end_time
                /\ call.status = "returned" =>
                      HasData(forcing) /\ forcing.data = ReaderResult)
    /\ [][OnlyImportChanges /\ ImportKeepsGridAndName /\ RaisedImportKeepsData]_vars

\* C12's case: a second import_forcing whose reader raised has replaced the
\* time span of a Forcing that holds the data of the first, and filename has
\* then returned a name
C12_Witness ==
    /\ call.op = "filename" /\ call.status = "returned"
    /\ HasData(forcing)
    /\ forcing.start_time = Outage.start_time /\ forcing.end_time = Outage.end_time
    /\ forcing.data.time[1] >= SecPerDay

====
